---- MODULE Spec2Model ----
(***************************************************************************)
(* Model of catch/unit/texture/hipTextureMipmapObj1D.cc: one run of        *)
(* testMipmapTextureObj<T, hipReadModeElementType, filterMode,             *)
(* addressMode>(width, offsetX), with T a one-channel integer texel.       *)
(* The host is a sequential program (pc); kernels are launched on the      *)
(* default stream and their threads run concurrently with the host.        *)
(* offsetX is kept in hundredths and coordinates as exact fractions.       *)
(***************************************************************************)
EXTENDS Integers, Sequences, FiniteSets, TLC

\* ---------------------------------------------------------------- bounds
MaxWidth == 17
Window == 3
Offsets == {-30, 96}
MaxSeed == 1

\* ------------------------------------------------------ program constants
BlockSizeX == 16
hipFilterModePoint == "Point"
hipFilterModeLinear == "Linear"
hipAddressModeClamp == "Clamp"
hipAddressModeBorder == "Border"
FilterModes == {hipFilterModePoint, hipFilterModeLinear}
AddressModes == {hipAddressModeClamp, hipAddressModeBorder}

\* The sections of the TEST_CASEs that run with hipReadModeElementType
\* (offsets in hundredths).
TestSections ==
  { [w |-> 23,  off |-> 49,  fm |-> hipFilterModePoint,  am |-> hipAddressModeClamp],
    [w |-> 67,  off |-> -30, fm |-> hipFilterModePoint,  am |-> hipAddressModeClamp],
    [w |-> 131, off |-> 15,  fm |-> hipFilterModePoint,  am |-> hipAddressModeBorder],
    [w |-> 23,  off |-> 0,   fm |-> hipFilterModeLinear, am |-> hipAddressModeClamp],
    [w |-> 23,  off |-> -67, fm |-> hipFilterModeLinear, am |-> hipAddressModeClamp],
    [w |-> 131, off |-> 96,  fm |-> hipFilterModeLinear, am |-> hipAddressModeBorder],
    [w |-> 67,  off |-> -97, fm |-> hipFilterModeLinear, am |-> hipAddressModeBorder] }

Configs ==
  TestSections \cup
  { [w |-> w, off |-> off, fm |-> fm, am |-> am] :
      w \in 1..MaxWidth, off \in Offsets, fm \in FilterModes, am \in AddressModes }

\* ------------------------------------------------------------- arithmetic
Max(a, b) == IF a >= b THEN a ELSE b
Min(a, b) == IF a <= b THEN a ELSE b

RECURSIVE Pow2(_)
Pow2(n) == IF n = 0 THEN 1 ELSE 2 * Pow2(n - 1)

RECURSIVE FloorLog2(_)
FloorLog2(n) == IF n <= 1 THEN 0 ELSE 1 + FloorLog2(n \div 2)

\* the level count rounded up instead of truncated
MaxLevelsRoundedUp(w) ==
  IF w = Pow2(FloorLog2(w)) THEN 1 + FloorLog2(w) ELSE 2 + FloorLog2(w)

\* const unsigned int maxLevels = 1 + std::log2(width): the double result
\* is truncated; exact for every width the model reaches.
MaxLevelsOf(w) == 1 + FloorLog2(w)

\* while (width != 1)
LoopCond(w) == w # 1

\* width = width >> 1 ? width >> 1 : 1
NextWidth(w) == IF w \div 2 # 0 THEN w \div 2 ELSE 1

\* the block count rounded down
GridSizeRoundedDown(w) == w \div BlockSizeX

\* dim3 gridSize((width + blockSize.x - 1) / blockSize.x, 1, 1)
GridSize(w) == (w + BlockSizeX - 1) \div BlockSizeX

\* if (x < width): the threads of a launch that pass the bounds test
InBounds(x, w) == x < w

\* the texel centre (x + 0.5) * px instead of x * px
PopulateCoordCentre(x, w) == [num |-> 2 * x + 1, den |-> 2 * w]

\* tex1D<T>(texIn, x * px), px = 1.0 / float(width): normalized coordinate
PopulateCoord(x, w) == [num |-> x, den |-> w]

\* tex1DLod<T>(texMipmap, (x + offsetX) * px, lod)
GetMipmapCoord(x, off, w) == [num |-> 100 * x + off, den |-> 100 * w]

\* the offset left out of the reference coordinate
ExpectedCoordNoOffset(i, off) == [num |-> 100 * i, den |-> 100]

\* getExpectedValue<...>(width, i + offsetX, data): unnormalized coordinate
ExpectedCoord(i, off) == [num |-> 100 * i + off, den |-> 100]

\* ------------------------------------------ reference sampler (spec 4.1/4.2)
Resolve(index, w, mode) ==
  IF mode = hipAddressModeClamp
    THEN [idx |-> Max(0, Min(index, w - 1)), border |-> FALSE]
    ELSE IF index >= 0 /\ index < w
           THEN [idx |-> index, border |-> FALSE]
           ELSE [idx |-> -1, border |-> TRUE]

Texel(data, r) == IF r.border THEN 0 ELSE data[r.idx + 1]

\* Linear taps at texel-unit coordinate c.num / c.den:
\* pos = coord - 0.5, i0 = floor(pos), frac = pos - i0 (as fnum / fden)
LinearTaps(c) ==
  LET p2  == 2 * c.num - c.den
      d2  == 2 * c.den
      i0  == p2 \div d2
  IN  [i0 |-> i0, i1 |-> i0 + 1, fnum |-> p2 - i0 * d2, fden |-> d2]

\* c is in texel units; integer storage, so Linear rounds to storage.
Sample(data, w, c, fm, am) ==
  IF fm = hipFilterModePoint
    THEN Texel(data, Resolve(c.num \div c.den, w, am))
    ELSE LET t  == LinearTaps(c)
             v0 == Texel(data, Resolve(t.i0, w, am))
             v1 == Texel(data, Resolve(t.i1, w, am))
             n  == (t.fden - t.fnum) * v0 + t.fnum * v1
         IN  (2 * n + t.fden) \div (2 * t.fden)

\* The device sampler takes a normalized coordinate (normalizedCoords = 1)
\* and scales it by the width of the level it reads.
DeviceSample(data, w, nc, fm, am) ==
  Sample(data, w, [num |-> nc.num * w, den |-> nc.den], fm, am)

\* initVal(data.data[i]): pseudo-random, non-zero texels
InitVal(seed, i) == 1 + ((seed * 7 + i * 5) % 11)

Zeros(n) == [k \in 1..n |-> 0]

\* ------------------------------------------------------------------ state
VARIABLES
  pc,            \* host position
  failed,        \* "" | "contract" | "mismatch": the REQUIRE that aborted
  baseWidth, offsetX, filterMode, addressMode, seed,   \* test parameters
  maxLevels,
  width, level,  \* locals of populateMipmaps
  levelArraySize, nextLevelArraySize,
  mipmapData,    \* std::vector<mipmapLevelArray<T>>: [data, e]
  data,          \* populateMipmaps' local mipmapLevelArray<T> data
  vlevel, vi,    \* loop counters of the verification loops
  hOutput,
  hostBufs,      \* hipHostMalloc'd buffers, by pointer value
  mipmapArray,   \* the hipMipmappedArray_t and its device contents
  arrayHandles,  \* outstanding hipArray_t level handles
  objs,          \* texture and surface objects, by handle
  texIn, surfOut, texMipmap,
  stream,        \* kernels launched and not yet complete (default stream)
  unsynced,      \* buffers written by kernels launched since the last sync
  comparisons,   \* log of verifyMipmapLevel's comparisons
  oobWrites,     \* device writes outside a buffer
  hazards        \* ordering and lifetime violations observed

vars == <<pc, failed, baseWidth, offsetX, filterMode, addressMode, seed,
          maxLevels, width, level, levelArraySize, nextLevelArraySize,
          mipmapData, data, vlevel, vi, hOutput, hostBufs, mipmapArray,
          arrayHandles, objs, texIn, surfOut, texMipmap, stream, unsynced,
          comparisons, oobWrites, hazards>>

cfgVars == <<baseWidth, offsetX, filterMode, addressMode, seed>>

Init ==
  /\ \E c \in Configs :
       /\ baseWidth = c.w
       /\ offsetX = c.off
       /\ filterMode = c.fm
       /\ addressMode = c.am
  /\ seed \in 1..MaxSeed
  /\ pc = "start"
  /\ failed = ""
  /\ maxLevels = 0
  /\ width = 0
  /\ level = 0
  /\ levelArraySize = 0
  /\ nextLevelArraySize = 0
  /\ mipmapData = <<>>
  /\ data = [data |-> 0, e |-> 0]
  /\ vlevel = 0
  /\ vi = 0
  /\ hOutput = 0
  /\ hostBufs = <<>>
  /\ mipmapArray = [st |-> "none", frees |-> 0, levels |-> <<>>]
  /\ arrayHandles = 0
  /\ objs = <<>>
  /\ texIn = 0
  /\ surfOut = 0
  /\ texMipmap = 0
  /\ stream = <<>>
  /\ unsynced = {}
  /\ comparisons = <<>>
  /\ oobWrites = 0
  /\ hazards = {}

popLocals == <<width, level, levelArraySize, nextLevelArraySize, data>>
verLocals == <<vlevel, vi, hOutput>>
handles == <<texIn, surfOut, texMipmap>>
device == <<stream, unsynced>>

\* ------------------------------------------------------- runtime helpers
\* a sample request, kept with the texel the device wrote for it
NoReq ==
  [kind |-> "", coord |-> [num |-> -1, den |-> 1], fm |-> "", am |-> "",
   src |-> -1]
NoReqs(n) == [k \in 1..n |-> NoReq]

\* hipHostMalloc + memset(.., 0, size)
NewBuf(n) ==
  [st |-> "live", vals |-> Zeros(n), wcount |-> Zeros(n), req |-> NoReqs(n),
   frees |-> 0]

\* the buffer never released
FreeBufLeak(bufs, p) == bufs

\* hipHostFree(p)
FreeBuf(bufs, p) ==
  [bufs EXCEPT ![p].st = "freed", ![p].frees = @ + 1]

\* hipCreateTextureObject / hipCreateSurfaceObject: res is the level the
\* object is bound to, -1 for the whole mipmapped array
NewObj(kind, fm, am, res) ==
  [kind |-> kind, st |-> "live", destroys |-> 0, fm |-> fm, am |-> am,
   res |-> res]

\* hipDestroyTextureObject / hipDestroySurfaceObject
DestroyObj(os, h) ==
  [os EXCEPT ![h].st = "destroyed", ![h].destroys = @ + 1]

HostTag(p) == <<"host", p>>
LevelTag(k) == <<"level", k>>

\* what an access to host buffer p adds to hazards
BufUse(p) == IF hostBufs[p].st # "live" THEN {"host-use-after-free"} ELSE {}
HostAccess(p) ==
  BufUse(p) \cup
  (IF HostTag(p) \in unsynced THEN {"host-read-before-sync"} ELSE {})

\* what using object h adds to hazards
ObjUse(h) == IF objs[h].st # "live" THEN {"object-use-after-destroy"} ELSE {}

MipUse == IF mipmapArray.st # "live" THEN {"mipmap-use-after-free"} ELSE {}

\* width of level k of a mipmapped array of extent w, as the runtime lays
\* it out
AllocatorWidth(w, k) == Max(1, w \div Pow2(k))

\* hipArrayGetInfo: the width reported for a level of width w.  The
\* allocator is external, so a report that breaks its contract is possible.
ReportedWidths(w) == {w, w + 1}

\* the size check reported but not fatal
OnSizeMismatchContinue(next) == [failed |-> "contract", pc |-> next]

\* lines 95, 105: REQUIRE(false) ends the test case; next is where the
\* host would go on otherwise
OnSizeMismatch(next) == [failed |-> "contract", pc |-> "aborted"]

\* the record keeps a width other than the one allocated
LevelRecordWrongExtent(p, w) == [data |-> p, e |-> w + 1]

\* line 132: mipmapLevelArray<T> data{nullptr, {width, 0, 0}} + hipHostMalloc
LevelRecord(p, w) == [data |-> p, e |-> w]

\* the host going on without waiting for the stream
SynchronizeNoWait(s, u) == [ready |-> TRUE, unsynced |-> u]

\* HIP_CHECK(hipDeviceSynchronize()): returns once the stream has drained
Synchronize(s, u) == [ready |-> s = <<>>, unsynced |-> {}]

\* ---------------------------------------- testMipmapTextureObj, lines 196-243
\* lines 197-218: allocate, zero and initialise level 0, record it
InitLevel0 ==
  /\ pc = "start"
  /\ hostBufs' = Append(hostBufs,
       [NewBuf(baseWidth) EXCEPT
          !.vals = [k \in 1..baseWidth |-> InitVal(seed, k - 1)]])
  /\ mipmapData' = <<[data |-> Len(hostBufs) + 1, e |-> baseWidth]>>
  /\ pc' = "malloc"
  /\ UNCHANGED <<failed, cfgVars, maxLevels, popLocals, verLocals, mipmapArray,
                 arrayHandles, objs, handles, device, comparisons, oobWrites,
                 hazards>>

\* lines 221-227: maxLevels and hipMallocMipmappedArray
MallocMipmappedArray ==
  /\ pc = "malloc"
  /\ maxLevels' = MaxLevelsOf(baseWidth)
  /\ mipmapArray' =
       [st |-> "live", frees |-> 0,
        levels |-> [k \in 1..maxLevels' |-> Zeros(AllocatorWidth(baseWidth, k - 1))]]
  /\ pc' = "copy"
  /\ UNCHANGED <<failed, cfgVars, popLocals, mipmapData, verLocals, hostBufs,
                 arrayHandles, objs, handles, device, comparisons, oobWrites,
                 hazards>>

\* lines 230-240: hipGetMipmappedArrayLevel(.., 0) and hipMemcpy3D of level 0
CopyLevel0 ==
  /\ pc = "copy"
  /\ arrayHandles' = arrayHandles + 1
  /\ mipmapArray' =
       [mipmapArray EXCEPT !.levels[1] = hostBufs[mipmapData[1].data].vals]
  /\ hazards' = hazards \cup HostAccess(mipmapData[1].data) \cup MipUse
  /\ pc' = "call"
  /\ UNCHANGED <<failed, cfgVars, maxLevels, popLocals, mipmapData, verLocals,
                 hostBufs, objs, handles, device, comparisons, oobWrites>>

\* ------------------------------------------------ populateMipmaps, lines 80-152
\* lines 82-83
CallPopulate ==
  /\ pc = "call"
  /\ width' = baseWidth
  /\ level' = 0
  /\ pc' = "loop"
  /\ UNCHANGED <<failed, cfgVars, maxLevels, levelArraySize, nextLevelArraySize,
                 data, mipmapData, verLocals, hostBufs, mipmapArray,
                 arrayHandles, objs, handles, device, comparisons, oobWrites,
                 hazards>>

\* line 85: while (width != 1)
LoopTest ==
  /\ pc = "loop"
  /\ pc' = IF LoopCond(width) THEN "getLevels" ELSE "checkLevels"
  /\ UNCHANGED <<failed, cfgVars, maxLevels, popLocals, mipmapData, verLocals,
                 hostBufs, mipmapArray, arrayHandles, objs, handles, device,
                 comparisons, oobWrites, hazards>>

\* lines 86-91: both level handles, and the size reported for level
GetLevels ==
  /\ pc = "getLevels"
  /\ arrayHandles' = arrayHandles + 2
  /\ levelArraySize' \in ReportedWidths(AllocatorWidth(baseWidth, level))
  /\ hazards' = hazards \cup MipUse
  /\ pc' = "checkLevel"
  /\ UNCHANGED <<failed, cfgVars, maxLevels, width, level, nextLevelArraySize,
                 data, mipmapData, verLocals, hostBufs, mipmapArray, objs,
                 handles, device, comparisons, oobWrites>>

\* lines 92-96
CheckLevelSize ==
  /\ pc = "checkLevel"
  /\ LET r == IF levelArraySize # width
                THEN OnSizeMismatch("halve")
                ELSE [failed |-> failed, pc |-> "halve"]
     IN  failed' = r.failed /\ pc' = r.pc
  /\ UNCHANGED <<cfgVars, maxLevels, popLocals, mipmapData, verLocals,
                 hostBufs, mipmapArray, arrayHandles, objs, handles, device,
                 comparisons, oobWrites, hazards>>

\* lines 98-101: halve the expected width, size reported for level + 1
Halve ==
  /\ pc = "halve"
  /\ width' = NextWidth(width)
  /\ nextLevelArraySize' \in
       ReportedWidths(AllocatorWidth(baseWidth, level + 1))
  /\ pc' = "checkNext"
  /\ UNCHANGED <<failed, cfgVars, maxLevels, level, levelArraySize, data,
                 mipmapData, verLocals, hostBufs, mipmapArray, arrayHandles,
                 objs, handles, device, comparisons, oobWrites, hazards>>

\* lines 102-106
CheckNextLevelSize ==
  /\ pc = "checkNext"
  /\ LET r == IF nextLevelArraySize # width
                THEN OnSizeMismatch("createTex")
                ELSE [failed |-> failed, pc |-> "createTex"]
     IN  failed' = r.failed /\ pc' = r.pc
  /\ UNCHANGED <<cfgVars, maxLevels, popLocals, mipmapData, verLocals,
                 hostBufs, mipmapArray, arrayHandles, objs, handles, device,
                 comparisons, oobWrites, hazards>>

\* texDescr.filterMode / addressMode[0] of the per-level texture, lines 117-118
TexInModes(fm, am) == [fm |-> fm, am |-> am]

\* lines 108-122: texture object on level
CreateTexIn ==
  /\ pc = "createTex"
  /\ LET m == TexInModes(filterMode, addressMode)
     IN  objs' = Append(objs, NewObj("tex", m.fm, m.am, level))
  /\ texIn' = Len(objs) + 1
  /\ pc' = "createSurf"
  /\ UNCHANGED <<failed, cfgVars, maxLevels, popLocals, mipmapData, verLocals,
                 hostBufs, mipmapArray, arrayHandles, surfOut, texMipmap,
                 device, comparisons, oobWrites, hazards>>

\* lines 124-130: surface object on level + 1
CreateSurfOut ==
  /\ pc = "createSurf"
  /\ objs' = Append(objs, NewObj("surf", "", "", level + 1))
  /\ surfOut' = Len(objs) + 1
  /\ pc' = "allocData"
  /\ UNCHANGED <<failed, cfgVars, maxLevels, popLocals, mipmapData, verLocals,
                 hostBufs, mipmapArray, arrayHandles, texIn, texMipmap,
                 device, comparisons, oobWrites, hazards>>

\* lines 131-134: the host record of level + 1
AllocLevelData ==
  /\ pc = "allocData"
  /\ hostBufs' = Append(hostBufs, NewBuf(width))
  /\ data' = LevelRecord(Len(hostBufs) + 1, width)
  /\ pc' = "launch"
  /\ UNCHANGED <<failed, cfgVars, maxLevels, width, level, levelArraySize,
                 nextLevelArraySize, mipmapData, verLocals, mipmapArray,
                 arrayHandles, objs, handles, device, comparisons, oobWrites,
                 hazards>>

\* the threads of a <<<gridSize, blockSize>>> launch
Threads(w) == 0 .. (GridSize(w) * BlockSizeX - 1)

\* lines 136-140: populateMipmapNextLevelArray<<<gridSize, blockSize>>>
LaunchPopulate ==
  /\ pc = "launch"
  /\ stream' = Append(stream,
       [kind |-> "populate", width |-> width, pending |-> Threads(width),
        tex |-> texIn, surf |-> surfOut, out |-> data.data, off |-> 0,
        lod |-> 0])
  /\ unsynced' = unsynced \cup {HostTag(data.data), LevelTag(level + 1)}
  /\ hazards' = hazards \cup
       (IF LevelTag(level) \in unsynced THEN {"kernel-reads-unsynced-level"}
        ELSE {})
  /\ pc' = "sync"
  /\ UNCHANGED <<failed, cfgVars, maxLevels, popLocals, mipmapData, verLocals,
                 hostBufs, mipmapArray, arrayHandles, objs, handles,
                 comparisons, oobWrites>>

\* lines 142-143
PopulateSync ==
  /\ pc = "sync"
  /\ LET r == Synchronize(stream, unsynced)
     IN  r.ready /\ unsynced' = r.unsynced
  /\ pc' = "release"
  /\ UNCHANGED <<failed, cfgVars, maxLevels, popLocals, mipmapData, verLocals,
                 hostBufs, mipmapArray, arrayHandles, objs, handles, stream,
                 comparisons, oobWrites, hazards>>

\* lines 145-148: destroy the two objects, free the two level handles
ReleaseStep ==
  /\ pc = "release"
  /\ objs' = DestroyObj(DestroyObj(objs, surfOut), texIn)
  /\ arrayHandles' = arrayHandles - 2
  /\ pc' = "push"
  /\ UNCHANGED <<failed, cfgVars, maxLevels, popLocals, mipmapData, verLocals,
                 hostBufs, mipmapArray, handles, device, comparisons,
                 oobWrites, hazards>>

\* lines 149-150
PushBack ==
  /\ pc = "push"
  /\ mipmapData' = Append(mipmapData, data)
  /\ level' = level + 1
  /\ pc' = "loop"
  /\ UNCHANGED <<failed, cfgVars, maxLevels, width, levelArraySize,
                 nextLevelArraySize, data, verLocals, hostBufs, mipmapArray,
                 arrayHandles, objs, handles, device, comparisons, oobWrites,
                 hazards>>

\* ------------------------------------------------------------ device side
\* The scheduler runs, in any order, a thread that has not run yet and is
\* fewer than Window ahead of the lowest-numbered such thread.
MinOf(S) == CHOOSE m \in S : \A u \in S : m <= u
Eligible(pending) == {t \in pending : t < MinOf(pending) + Window}

Retire(k, x) ==
  IF k.pending \ {x} = {}
    THEN Tail(stream)
    ELSE <<[k EXCEPT !.pending = @ \ {x}]>> \o Tail(stream)

\* lines 39-49: thread x of populateMipmapNextLevelArray<T, ElementType>
PopulateThread ==
  /\ stream # <<>>
  /\ Head(stream).kind = "populate"
  /\ \E x \in Eligible(Head(stream).pending) :
       LET k       == Head(stream)
           o       == objs[k.tex]
           dst     == objs[k.surf].res
           srcData == mipmapArray.levels[o.res + 1]
           nc      == PopulateCoord(x, k.width)
           t       == DeviceSample(srcData, Len(srcData), nc, o.fm, o.am)
           rq      == [kind |-> "populate", coord |-> nc, fm |-> o.fm,
                       am |-> o.am, src |-> o.res]
       IN  /\ stream' = Retire(k, x)
           /\ IF InBounds(x, k.width)
                THEN /\ hazards' = hazards \cup ObjUse(k.tex) \cup ObjUse(k.surf)
                                     \cup BufUse(k.out) \cup MipUse
                     /\ IF x < Len(hostBufs[k.out].vals)
                          THEN /\ mipmapArray' =
                                    [mipmapArray EXCEPT !.levels[dst + 1][x + 1] = t]
                               /\ hostBufs' =
                                    [hostBufs EXCEPT ![k.out].vals[x + 1] = t,
                                                     ![k.out].wcount[x + 1] = @ + 1,
                                                     ![k.out].req[x + 1] = rq]
                               /\ oobWrites' = oobWrites
                          ELSE /\ oobWrites' = oobWrites + 1
                               /\ UNCHANGED <<mipmapArray, hostBufs>>
                ELSE UNCHANGED <<hazards, mipmapArray, hostBufs, oobWrites>>
  /\ UNCHANGED <<pc, failed, cfgVars, maxLevels, popLocals, mipmapData,
                 verLocals, arrayHandles, objs, handles, unsynced, comparisons>>

\* lines 67-72: thread x of getMipmap<T>.  The texel the hardware returns is
\* not tracked; the request it answers is kept with the output element.
GetMipmapThread ==
  /\ stream # <<>>
  /\ Head(stream).kind = "getMipmap"
  /\ \E x \in Eligible(Head(stream).pending) :
       LET k  == Head(stream)
           o  == objs[k.tex]
           nc == GetMipmapCoord(x, k.off, k.width)
           rq == [kind |-> "getMipmap", coord |-> nc, fm |-> o.fm,
                  am |-> o.am, src |-> k.lod]
       IN  /\ stream' = Retire(k, x)
           /\ IF InBounds(x, k.width)
                THEN /\ hazards' = hazards \cup ObjUse(k.tex) \cup BufUse(k.out)
                                     \cup MipUse
                     /\ IF x < Len(hostBufs[k.out].vals)
                          THEN /\ hostBufs' =
                                    [hostBufs EXCEPT ![k.out].wcount[x + 1] = @ + 1,
                                                     ![k.out].req[x + 1] = rq]
                               /\ oobWrites' = oobWrites
                          ELSE /\ oobWrites' = oobWrites + 1
                               /\ hostBufs' = hostBufs
                ELSE UNCHANGED <<hazards, hostBufs, oobWrites>>
  /\ UNCHANGED <<pc, failed, cfgVars, maxLevels, popLocals, mipmapData,
                 verLocals, mipmapArray, arrayHandles, objs, handles, unsynced,
                 comparisons>>

\* ---------------------------------------- testMipmapTextureObj, lines 245-292
\* lines 245-248
CheckMaxLevels ==
  /\ pc = "checkLevels"
  /\ IF maxLevels # Len(mipmapData)
       THEN failed' = "levels" /\ pc' = "aborted"
       ELSE failed' = failed /\ pc' = "createMip"
  /\ UNCHANGED <<cfgVars, maxLevels, popLocals, mipmapData, verLocals,
                 hostBufs, mipmapArray, arrayHandles, objs, handles, device,
                 comparisons, oobWrites, hazards>>

\* lines 250-268: the texture object on the whole mipmapped array
CreateMipmapTexture ==
  /\ pc = "createMip"
  /\ objs' = Append(objs, NewObj("tex", filterMode, addressMode, -1))
  /\ texMipmap' = Len(objs) + 1
  /\ hazards' = hazards \cup MipUse
  /\ vlevel' = 0
  /\ pc' = "vloop"
  /\ UNCHANGED <<failed, cfgVars, maxLevels, popLocals, mipmapData, vi,
                 hOutput, hostBufs, mipmapArray, arrayHandles, texIn, surfOut,
                 device, comparisons, oobWrites>>

\* line 270: for (level = 0; level < mipmapData.size(); level++)
VerifyLoopTest ==
  /\ pc = "vloop"
  /\ pc' = IF vlevel < Len(mipmapData) THEN "allocOut" ELSE "destroyMip"
  /\ UNCHANGED <<failed, cfgVars, maxLevels, popLocals, mipmapData, verLocals,
                 hostBufs, mipmapArray, arrayHandles, objs, handles, device,
                 comparisons, oobWrites, hazards>>

\* every level sampled at lod 0
VerifyArgsLodZero(md, lvl) ==
  [data |-> md[lvl + 1].data, width |-> md[lvl + 1].e, level |-> 0]

\* lines 271, 283-284: the arguments of verifyMipmapLevel for level lvl
VerifyArgs(md, lvl) ==
  [data |-> md[lvl + 1].data, width |-> md[lvl + 1].e, level |-> lvl]

\* lines 159-162
AllocOutput ==
  /\ pc = "allocOut"
  /\ hostBufs' = Append(hostBufs, NewBuf(VerifyArgs(mipmapData, vlevel).width))
  /\ hOutput' = Len(hostBufs) + 1
  /\ pc' = "launchGet"
  /\ UNCHANGED <<failed, cfgVars, maxLevels, popLocals, mipmapData, vlevel, vi,
                 mipmapArray, arrayHandles, objs, handles, device, comparisons,
                 oobWrites, hazards>>

\* lines 164-167: getMipmap<<<gridSize, blockSize>>>
LaunchGetMipmap ==
  /\ pc = "launchGet"
  /\ LET a == VerifyArgs(mipmapData, vlevel)
     IN  stream' = Append(stream,
           [kind |-> "getMipmap", width |-> a.width, pending |-> Threads(a.width),
            tex |-> texMipmap, surf |-> 0, out |-> hOutput, off |-> offsetX,
            lod |-> a.level])
  /\ unsynced' = unsynced \cup {HostTag(hOutput)}
  /\ hazards' = hazards \cup
       (IF \E k \in 0..maxLevels : LevelTag(k) \in unsynced
          THEN {"kernel-reads-unsynced-level"} ELSE {})
  /\ pc' = "vsync"
  /\ UNCHANGED <<failed, cfgVars, maxLevels, popLocals, mipmapData, verLocals,
                 hostBufs, mipmapArray, arrayHandles, objs, handles,
                 comparisons, oobWrites>>

\* lines 168-169
VerifySync ==
  /\ pc = "vsync"
  /\ LET r == Synchronize(stream, unsynced)
     IN  r.ready /\ unsynced' = r.unsynced
  /\ vi' = 0
  /\ pc' = "compare"
  /\ UNCHANGED <<failed, cfgVars, maxLevels, popLocals, mipmapData, vlevel,
                 hOutput, hostBufs, mipmapArray, arrayHandles, objs, handles,
                 stream, comparisons, oobWrites, hazards>>

\* the level whose recorded data is the buffer p
LevelOfData(p) ==
  CHOOSE k \in 0..(Len(mipmapData) - 1) : mipmapData[k + 1].data = p

\* the mismatch recorded, the loop going on (CHECK instead of REQUIRE)
OnMismatchContinue(p) == [failed |-> "mismatch", pc |-> p]

\* lines 175-181: REQUIRE(false) ends the test case at a mismatch; p is the
\* host's position in the loop
OnMismatch(p) == [failed |-> "mismatch", pc |-> "aborted"]

\* lines 171-189: one iteration of the comparison loop.  Whether the
\* hardware's texel matches the reference is a free input.
Compare ==
  /\ pc = "compare"
  /\ LET a == VerifyArgs(mipmapData, vlevel)
     IN  /\ vi < a.width
         /\ \E match \in BOOLEAN :
              /\ comparisons' = Append(comparisons,
                   [level |-> a.level, i |-> vi,
                    obs |-> hostBufs[hOutput].req[vi + 1],
                    written |-> hostBufs[hOutput].wcount[vi + 1],
                    expLevel |-> LevelOfData(a.data),
                    expCoord |-> ExpectedCoord(vi, offsetX),
                    expWidth |-> a.width,
                    fm |-> filterMode, am |-> addressMode,
                    match |-> match])
              /\ LET r == IF match THEN [failed |-> failed, pc |-> pc]
                                    ELSE OnMismatch(pc)
                 IN  /\ failed' = r.failed
                     /\ pc' = r.pc
                     /\ vi' = IF r.pc = "compare" THEN vi + 1 ELSE vi
         /\ hazards' = hazards \cup HostAccess(a.data) \cup HostAccess(hOutput)
  /\ UNCHANGED <<cfgVars, maxLevels, popLocals, mipmapData, vlevel, hOutput,
                 hostBufs, mipmapArray, arrayHandles, objs, handles, device,
                 oobWrites>>

\* line 190, after the loop
FreeOutput ==
  /\ pc = "compare"
  /\ ~ (vi < VerifyArgs(mipmapData, vlevel).width)
  /\ hostBufs' = FreeBuf(hostBufs, hOutput)
  /\ pc' = "freeData"
  /\ UNCHANGED <<failed, cfgVars, maxLevels, popLocals, mipmapData, verLocals,
                 mipmapArray, arrayHandles, objs, handles, device, comparisons,
                 oobWrites, hazards>>

\* lines 286-287, and level++ of line 270
FreeLevelData ==
  /\ pc = "freeData"
  /\ hostBufs' = FreeBuf(hostBufs, mipmapData[vlevel + 1].data)
  /\ mipmapData' = [mipmapData EXCEPT ![vlevel + 1] = [data |-> 0, e |-> 0]]
  /\ vlevel' = vlevel + 1
  /\ pc' = "vloop"
  /\ UNCHANGED <<failed, cfgVars, maxLevels, popLocals, vi, hOutput,
                 mipmapArray, arrayHandles, objs, handles, device, comparisons,
                 oobWrites, hazards>>

\* line 290
DestroyMipmapTexture ==
  /\ pc = "destroyMip"
  /\ objs' = DestroyObj(objs, texMipmap)
  /\ pc' = "freeMip"
  /\ UNCHANGED <<failed, cfgVars, maxLevels, popLocals, mipmapData, verLocals,
                 hostBufs, mipmapArray, arrayHandles, handles, device,
                 comparisons, oobWrites, hazards>>

\* line 291
FreeMipmappedArray ==
  /\ pc = "freeMip"
  /\ mipmapArray' = [mipmapArray EXCEPT !.st = "freed", !.frees = @ + 1]
  /\ hazards' = hazards \cup
       (IF \E h \in 1..Len(objs) : objs[h].st = "live"
          THEN {"mipmap-freed-under-live-object"} ELSE {})
  /\ pc' = "done"
  /\ UNCHANGED <<failed, cfgVars, maxLevels, popLocals, mipmapData, verLocals,
                 hostBufs, arrayHandles, objs, handles, device, comparisons,
                 oobWrites>>

\* ---------------------------------------------------------- specification
Next ==
  \/ InitLevel0
  \/ MallocMipmappedArray
  \/ CopyLevel0
  \/ CallPopulate
  \/ LoopTest
  \/ GetLevels
  \/ CheckLevelSize
  \/ Halve
  \/ CheckNextLevelSize
  \/ CreateTexIn
  \/ CreateSurfOut
  \/ AllocLevelData
  \/ LaunchPopulate
  \/ PopulateThread
  \/ PopulateSync
  \/ ReleaseStep
  \/ PushBack
  \/ CheckMaxLevels
  \/ CreateMipmapTexture
  \/ VerifyLoopTest
  \/ AllocOutput
  \/ LaunchGetMipmap
  \/ GetMipmapThread
  \/ VerifySync
  \/ Compare
  \/ FreeOutput
  \/ FreeLevelData
  \/ DestroyMipmapTexture
  \/ FreeMipmappedArray

Spec == Init /\ [][Next]_vars

TypeOK ==
  /\ pc \in {"start", "malloc", "copy", "call", "loop", "getLevels",
             "checkLevel", "halve", "checkNext", "createTex", "createSurf",
             "allocData", "launch", "sync", "release", "push", "checkLevels",
             "createMip", "vloop", "allocOut", "launchGet", "vsync",
             "compare", "freeData", "destroyMip", "freeMip", "done", "aborted"}
  /\ failed \in {"", "contract", "levels", "mismatch"}
  /\ Len(stream) <= 1

\* ----------------------------------------------------------------- claims
BuildPcs ==
  {"call", "loop", "getLevels", "checkLevel", "halve", "checkNext",
   "createTex", "createSurf", "allocData", "launch", "sync", "release",
   "push", "checkLevels"}

RecordedWidths == [k \in 1..Len(mipmapData) |-> mipmapData[k].e]

\* C1: when populateMipmaps has returned, the recorded chain has
\* n = 1 + floor(log2(baseWidth)) levels (2^(n-1) <= baseWidth < 2^n), n is
\* the maxLevels given to the allocator, one level was recorded per synthesis
\* step, the last level has width 1, and baseWidth = 1 ran no synthesis step.
C1_ChainLength ==
  pc = "checkLevels" =>
    LET n == Len(mipmapData)
    IN  /\ n >= 1
        /\ Pow2(n - 1) <= baseWidth
        /\ baseWidth < Pow2(n)
        /\ n = maxLevels
        /\ n = Len(mipmapArray.levels)
        /\ n = level + 1
        /\ mipmapData[n].e = 1
        /\ (baseWidth = 1 => n = 1 /\ level = 0 /\ objs = <<>>
                              /\ Len(hostBufs) = 1)

C1_Witness ==
  /\ pc = "checkLevels"
  /\ baseWidth = 16
  /\ Len(mipmapData) = 5
  /\ level = 4

\* C2: while the chain is being built, the first recorded level has width
\* baseWidth and every recorded level has width max(1, predecessor >> 1);
\* baseWidth = 23 ends with the widths 23, 11, 5, 2, 1.
C2_MonotoneHalving ==
  (pc \in BuildPcs /\ mipmapData # <<>>) =>
    /\ mipmapData[1].e = baseWidth
    /\ \A k \in 1..(Len(mipmapData) - 1) :
         mipmapData[k + 1].e = Max(1, mipmapData[k].e \div 2)
    /\ (baseWidth = 23 /\ pc = "checkLevels" =>
          RecordedWidths = <<23, 11, 5, 2, 1>>)

C2_Witness ==
  /\ pc = "checkLevels"
  /\ baseWidth = 23
  /\ RecordedWidths = <<23, 11, 5, 2, 1>>

\* C3: a step whose level or next-level size report differs from the
\* expected width fails at once with the hard assertion: that step created
\* no texture or surface object, allocated no level record, launched no
\* kernel and appended nothing, and nothing runs afterwards.
SizeReportWrong ==
  \/ pc = "checkLevel" /\ levelArraySize # width
  \/ pc = "checkNext" /\ nextLevelArraySize # width

C3_ContractAbort ==
  /\ [][SizeReportWrong =>
          /\ failed' = "contract"
          /\ pc' = "aborted"
          /\ UNCHANGED <<objs, hostBufs, stream, mipmapData, level>>]_vars
  /\ [](failed = "contract" =>
          /\ pc = "aborted"
          /\ Len(objs) = 2 * level
          /\ \A h \in 1..Len(objs) : objs[h].st = "destroyed"
          /\ Len(hostBufs) = 1 + level
          /\ Len(mipmapData) = 1 + level
          /\ stream = <<>>
          /\ unsynced = {})
  /\ [][failed = "contract" => FALSE]_vars

C3_Witness ==
  /\ failed = "contract"
  /\ pc = "aborted"
  /\ level >= 1
  /\ nextLevelArraySize # width

\* the texels written by the synthesis kernel, as <<buffer, index>>
PopulatedTexels ==
  {t \in UNION {{<<p, j>> : j \in 0..(Len(hostBufs[p].vals) - 1)} :
                  p \in 1..Len(hostBufs)} :
     hostBufs[t[1]].req[t[2] + 1].kind = "populate"}

\* C4 as stated: every synthesised texel j is the Nearest/Clamp sample of
\* the previous level at normalized coordinate (j + 0.5) / newWidth, i.e. the
\* texel clamp(floor((j + 0.5) * oldWidth / newWidth), 0, oldWidth - 1).
C4_AsStated ==
  \A t \in PopulatedTexels :
    LET p    == t[1]
        j    == t[2]
        r    == hostBufs[p].req[j + 1]
        newW == Len(hostBufs[p].vals)
        src  == mipmapArray.levels[r.src + 1]
        oldW == Len(src)
    IN  /\ r.coord.num * 2 * newW = (2 * j + 1) * r.coord.den
        /\ r.fm = hipFilterModePoint
        /\ r.am = hipAddressModeClamp
        /\ hostBufs[p].vals[j + 1] =
             src[Max(0, Min(((2 * j + 1) * oldW) \div (2 * newW), oldW - 1)) + 1]

\* C4 (amended): every synthesised texel j of level k+1 is the device's
\* sample of level k at normalized coordinate j / newWidth (no half-texel
\* offset) under the filter mode and addressing mode under test; it is
\* written to the level array and to the host record alike, and with Point
\* filtering it is level k's texel floor(j * oldWidth / newWidth).
C4_SynthesisSample ==
  \A t \in PopulatedTexels :
    LET p    == t[1]
        j    == t[2]
        r    == hostBufs[p].req[j + 1]
        newW == Len(hostBufs[p].vals)
        src  == mipmapArray.levels[r.src + 1]
        oldW == Len(src)
        v    == hostBufs[p].vals[j + 1]
    IN  /\ r.coord.num * newW = j * r.coord.den
        /\ r.fm = filterMode
        /\ r.am = addressMode
        /\ newW = Max(1, oldW \div 2)
        /\ v = mipmapArray.levels[r.src + 2][j + 1]
        /\ v = DeviceSample(src, oldW, [num |-> j, den |-> newW],
                            filterMode, addressMode)
        /\ (filterMode = hipFilterModePoint => v = src[(j * oldW) \div newW + 1])

C4_Witness ==
  /\ pc = "checkLevels"
  /\ baseWidth = 23
  /\ filterMode = hipFilterModePoint
  /\ addressMode = hipAddressModeClamp
  /\ \E t \in PopulatedTexels :
       /\ t[2] = 10
       /\ hostBufs[t[1]].req[11].src = 0
       /\ hostBufs[t[1]].vals[11] = mipmapArray.levels[1][21]

ChainWidthAt(L) == Max(1, baseWidth \div Pow2(L))

RECURSIVE ChainTexels(_)
ChainTexels(n) == IF n = 0 THEN 0 ELSE ChainTexels(n - 1) + ChainWidthAt(n - 1)

ComparisonOK(c) ==
  LET w == ChainWidthAt(c.level)
  IN  /\ c.i \in 0..(w - 1)
      /\ c.written = 1
      /\ c.obs.kind = "getMipmap"
      /\ c.obs.coord.num * (100 * w) = (100 * c.i + offsetX) * c.obs.coord.den
      /\ c.obs.src = c.level
      /\ c.obs.fm = filterMode
      /\ c.obs.am = addressMode
      /\ c.expLevel = c.level
      /\ c.expWidth = w
      /\ c.expCoord.num * c.obs.coord.den = c.obs.coord.num * c.expCoord.den * w
      /\ c.fm = filterMode
      /\ c.am = addressMode

InLevelIndexOrder(k) ==
  IF k = 1
    THEN comparisons[1].level = 0 /\ comparisons[1].i = 0
    ELSE LET c == comparisons[k]
             b == comparisons[k - 1]
         IN  \/ c.level = b.level /\ c.i = b.i + 1
             \/ /\ c.level = b.level + 1
                /\ c.i = 0
                /\ b.i = ChainWidthAt(b.level) - 1

\* C5: the comparisons are made level by level and index by index, one per
\* texel; each observed value answers the request (i + offset) / width(L) at
\* lod L through the texture's filter and addressing mode, each expected
\* value is taken from level L's own record at the same coordinate under the
\* same modes; a run that ends without failure has compared every texel of
\* every level.
C5_VerificationCoverage ==
  /\ \A k \in 1..Len(comparisons) :
       ComparisonOK(comparisons[k]) /\ InLevelIndexOrder(k)
  /\ (pc = "done" =>
        /\ failed = ""
        /\ Len(comparisons) = ChainTexels(1 + FloorLog2(baseWidth))
        /\ comparisons[Len(comparisons)].level = FloorLog2(baseWidth))

C5_Witness ==
  /\ pc = "done"
  /\ baseWidth = 23
  /\ offsetX = 49
  /\ Len(comparisons) = 42
  /\ comparisons[24].level = 1
  /\ comparisons[24].i = 0

\* C6: verification stops at the first mismatch: every comparison before
\* the last one matched, a failed comparison is the last one, the test case
\* has then failed hard, and no step follows.
C6_FailFast ==
  /\ [](\A k \in 1..(Len(comparisons) - 1) : comparisons[k].match)
  /\ []((failed = "mismatch") <=>
          (comparisons # <<>> /\ ~ comparisons[Len(comparisons)].match))
  /\ [](failed = "mismatch" => pc = "aborted")
  /\ [][failed = "mismatch" => FALSE]_vars

C6_Witness ==
  /\ failed = "mismatch"
  /\ comparisons # <<>>
  /\ LET c == comparisons[Len(comparisons)]
     IN  /\ c.level = 1
         /\ c.i = 2
         /\ c.expWidth >= 5
         /\ ~ c.match

\* C7: the host reads a buffer a kernel writes, and a kernel is launched on
\* a level another kernel writes, only after a device synchronization that
\* completed after that kernel's launch: the comparison loop runs with the
\* stream drained and every compared element written, and each synthesis
\* kernel is launched with its source level synchronized.
C7_SyncBeforeUse ==
  /\ hazards \cap {"host-read-before-sync", "kernel-reads-unsynced-level"} = {}
  /\ (pc \in {"compare", "launch", "launchGet", "copy"} =>
        stream = <<>> /\ unsynced = {})
  /\ \A k \in 1..Len(comparisons) : comparisons[k].written = 1
  /\ (pc = "launch" /\ level >= 1 =>
        \A x \in 1..mipmapData[level + 1].e :
          hostBufs[mipmapData[level + 1].data].wcount[x] = 1)

C7_Witness ==
  /\ pc = "compare"
  /\ vlevel = 1
  /\ vi = 1
  /\ baseWidth = 5
  /\ Len(comparisons) = 6

CeilDiv(a, b) == ((a - 1) \div b) + 1

\* a buffer whose kernel has been launched and has run all its threads
KernelComplete(p) ==
  /\ p # 1
  /\ ~ (pc = "launch" /\ p = data.data)
  /\ ~ (pc = "launchGet" /\ p = hOutput)
  /\ (stream = <<>> \/ Head(stream).out # p)

\* C9: a launch of ceil(width / 16) blocks of 16 threads writes every output
\* index below width exactly once, whatever the order of the threads, and
\* writes no index at or above width.
C9_OneWriterPerIndex ==
  /\ oobWrites = 0
  /\ \A p \in 1..Len(hostBufs) :
       /\ \A x \in 1..Len(hostBufs[p].wcount) : hostBufs[p].wcount[x] <= 1
       /\ (KernelComplete(p) =>
             \A x \in 1..Len(hostBufs[p].wcount) : hostBufs[p].wcount[x] = 1)
  /\ (stream # <<>> =>
        LET k == Head(stream)
        IN  /\ k.width >= 1
            /\ k.pending \subseteq 0..(16 * CeilDiv(k.width, 16) - 1)
            /\ Len(hostBufs[k.out].wcount) = k.width
            /\ \A x \in 0..(k.width - 1) :
                 hostBufs[k.out].wcount[x + 1] = IF x \in k.pending THEN 0 ELSE 1)

C9_Witness ==
  /\ pc = "compare"
  /\ baseWidth = 17
  /\ vlevel = 0
  /\ Len(hostBufs[hOutput].wcount) = 17
  /\ \A x \in 1..17 : hostBufs[hOutput].wcount[x] = 1
  /\ oobWrites = 0

LifetimeHazards ==
  {"host-use-after-free", "object-use-after-destroy", "mipmap-use-after-free",
   "mipmap-freed-under-live-object"}

\* C10: on a run without a failed assertion no host buffer is freed twice
\* or used after its free, no object is destroyed twice or used after its
\* destruction, and at the end every host buffer (level 0, one per
\* synthesised level, one per verified level) has been freed once, every
\* texture and surface object destroyed once, and the mipmapped array freed
\* once, after every object built on it was destroyed.
C10_Lifetimes ==
  failed = "" =>
    /\ hazards \cap LifetimeHazards = {}
    /\ \A p \in 1..Len(hostBufs) :
         /\ hostBufs[p].frees <= 1
         /\ (hostBufs[p].st = "freed") <=> (hostBufs[p].frees = 1)
    /\ \A h \in 1..Len(objs) :
         /\ objs[h].destroys <= 1
         /\ (objs[h].st = "destroyed") <=> (objs[h].destroys = 1)
    /\ mipmapArray.frees <= 1
    /\ (pc = "done" =>
          LET n == 1 + FloorLog2(baseWidth)
          IN  /\ Len(hostBufs) = 2 * n
              /\ \A p \in 1..Len(hostBufs) : hostBufs[p].frees = 1
              /\ Len(objs) = 2 * (n - 1) + 1
              /\ \A h \in 1..Len(objs) : objs[h].destroys = 1
              /\ mipmapArray.st = "freed"
              /\ mipmapArray.frees = 1)

C10_Witness ==
  /\ pc = "done"
  /\ failed = ""
  /\ baseWidth = 23
  /\ Len(hostBufs) = 10
  /\ Len(objs) = 9
  /\ mipmapArray.frees = 1

BorderCase(c) ==
  /\ offsetX = 96
  /\ c.expWidth = 131
  /\ c.i = 130
  /\ c.fm = hipFilterModeLinear
  /\ c.am = hipAddressModeBorder

\* C8 as stated: in that case the normalized sample coordinate
\* (130 + 0.96) / 131 exceeds 1.0 and the neighbour i1 is out of range and
\* resolved to the border.
C8_AsStated ==
  \A k \in 1..Len(comparisons) :
    LET c == comparisons[k]
        t == LinearTaps(c.expCoord)
    IN  BorderCase(c) =>
          /\ c.obs.coord.num > c.obs.coord.den
          /\ t.i1 = t.i0 + 1
          /\ Resolve(t.i1, c.expWidth, c.am).border

\* C8 (amended): with Border addressing, Linear filtering, offset 0.96 and
\* width 131, the sample at index 130 is requested at the normalized
\* coordinate 130.96 / 131, which is below 1.0; its taps are i0 = 130 (in
\* range) and i1 = 131 (out of range) with frac = 0.46, and the resolver gives
\* the border, a zero contribution, for i1.
C8_BorderNeighbour ==
  \A k \in 1..Len(comparisons) :
    LET c == comparisons[k]
        t == LinearTaps(c.expCoord)
    IN  BorderCase(c) =>
          /\ c.obs.coord.num < c.obs.coord.den
          /\ c.obs.coord.num * 13100 = 13096 * c.obs.coord.den
          /\ t.i0 = 130
          /\ t.i1 = 131
          /\ t.fnum * 100 = 46 * t.fden
          /\ ~ Resolve(t.i0, c.expWidth, c.am).border
          /\ Resolve(t.i1, c.expWidth, c.am).border
          /\ Texel(<<>>, Resolve(t.i1, c.expWidth, c.am)) = 0

C8_Witness ==
  /\ comparisons # <<>>
  /\ BorderCase(comparisons[Len(comparisons)])
  /\ comparisons[Len(comparisons)].level = 0

====
